---- MODULE Spec2Model ----
(***************************************************************************)
(* The telemetry dashboard of analytiq-hub/claude-eval: the three list     *)
(* components (TelemetryTracesList, TelemetryMetricsList,                  *)
(* TelemetryLogsList), TelemetryUpload and TelemetryOverview, as the page  *)
(* mounts them, one at a time, by the tab of the URL.                      *)
(*                                                                         *)
(* A React event (a click, a keystroke, the settling of a promise) is one  *)
(* action: the handler, the re-render its state updates cause and the      *)
(* effects of that re-render run to completion before the next event.      *)
(***************************************************************************)
EXTENDS Integers, Sequences, FiniteSets, Bags, TLC

VARIABLES
    tab,           \* the tab of the page: the one mounted component
    orphans,       \* the calls outstanding of components that were unmounted
    list,          \* the state of the list component
    inflight,      \* its list requests not yet settled: a bag of requests
    lastReq,       \* the list request issued last
    lastResponse,  \* the list response received last, as the server sent it
    serverTotal,   \* the size of the server's result set, where it is fixed
    upload,        \* the state of TelemetryUpload
    uploading,     \* its upload request not yet settled, if any
    overview,      \* the state of TelemetryOverview
    fetches,       \* its fetches not yet settled: a bag of fetches
    lastRejected,  \* of the overview fetch that failed last: the call that failed, and
                   \* the calls that had resolved by then
    organizationId \* the organization of the page's URL

listVars == <<list, inflight, lastReq, lastResponse, serverTotal>>
uploadVars == <<upload, uploading>>
overviewVars == <<overview, fetches, lastRejected>>
vars == <<tab, orphans, organizationId, list, inflight, lastReq, lastResponse, serverTotal,
          upload, uploading, overview, fetches, lastRejected>>

(***************************************************************************)
(* Bounds of the model.                                                    *)
(***************************************************************************)
MaxPages == 1       \* the server's totals reach MaxPages full pages and one item more
MaxInflight == 2    \* list requests outstanding at once
MaxBatch == 2       \* objects in an uploaded array, and summaries in a response
MaxFetches == 2     \* overview fetches outstanding at once
MaxOrphans == 2     \* calls outstanding of unmounted components

(***************************************************************************)
(* Values.                                                                 *)
(***************************************************************************)
Null == "<null>"            \* a string state that is null
Undefined == "<undefined>"  \* a request parameter that is not sent

ListKinds == {"traces", "metrics", "logs"}

Organizations == {"org1", "org2"}

Limit == 20

Min(a, b) == IF a < b THEN a ELSE b
Max(a, b) == IF a > b THEN a ELSE b

\* What a rejected promise carries: an Error with a message, or another value.
Thrown == {[isError |-> TRUE, message |-> "HTTP 500"], [isError |-> FALSE]}

\* A catch block that shows its fixed text whatever was thrown.
ErrorTextFixed(thrown, fallback) == fallback

\* err instanceof Error ? err.message : fallback
ErrorText(thrown, fallback) == IF thrown.isError THEN thrown.message ELSE fallback

\* The texts typed in the filter inputs, and the options of the severity select.
TagTexts == {"", "t1,t2"}
SearchTexts(kind) == IF kind = "logs" THEN {"", "ERROR"} ELSE {"", "span"}

\* The totals the server answers with: none, and those at each page boundary.
Totals == {0} \cup UNION {{p * Limit, p * Limit + 1} : p \in 1..MaxPages}

\* The totals of a server whose data change between two requests: none, one full
\* page, and one item more.
ChangingTotals == {0, Limit, Limit + 1}

(***************************************************************************)
(* The useState initial values of the components. A component that is not  *)
(* mounted is written as its initial state, with no request outstanding.   *)
(***************************************************************************)
\* A list that starts without its spinner.
ListInitialIdle ==
    [items |-> <<>>, loading |-> FALSE, error |-> Null, total |-> 0, skip |-> 0,
     tagFilter |-> "", nameSearch |-> ""]

\* nameSearch is severityFilter in the logs list.
ListInitial ==
    [items |-> <<>>, loading |-> TRUE, error |-> Null, total |-> 0, skip |-> 0,
     tagFilter |-> "", nameSearch |-> ""]

UploadInitial ==
    [activeTab |-> "traces", loading |-> FALSE, error |-> Null, success |-> Null,
     tracesData |-> <<>>, metricsData |-> <<>>, logsData |-> <<>>]

OverviewInitial ==
    [tracesData |-> <<>>, metricsData |-> <<>>, logsData |-> <<>>,
     loading |-> TRUE, error |-> Null]

ListUnmounted ==
    /\ list = ListInitial
    /\ inflight = EmptyBag
    /\ lastReq = <<>>
    /\ lastResponse = <<>>
    /\ serverTotal = 0

UploadUnmounted == upload = UploadInitial /\ uploading = <<>>

OverviewUnmounted == overview = OverviewInitial /\ fetches = EmptyBag /\ lastRejected = <<>>

(***************************************************************************)
(* The list components.                                                    *)
(***************************************************************************)
\* A parameter that is sent as it is, empty or not.
AsTyped(s) == s

\* x || undefined
OrUndefined(s) == IF s = "" THEN Undefined ELSE s

Fallback(kind) == "Failed to load " \o kind

\* The arguments of the list call that fetchTraces (fetchMetrics, fetchLogs) makes
\* from the state st of the render that created it.
RequestOf(kind, st) ==
    IF kind = "logs"
    THEN [organizationId |-> organizationId, skip |-> st.skip, limit |-> Limit,
          tagIds |-> OrUndefined(st.tagFilter), severity |-> OrUndefined(st.nameSearch)]
    ELSE [organizationId |-> organizationId, skip |-> st.skip, limit |-> Limit,
          tagIds |-> OrUndefined(st.tagFilter), nameSearch |-> OrUndefined(st.nameSearch)]

SearchParam(r) == IF "severity" \in DOMAIN r THEN r.severity ELSE r.nameSearch
FiltersOf(r) == <<r.tagIds, SearchParam(r)>>

\* The page the server returns for request r when its result set holds t items:
\* the summaries at offsets r.skip + 1 .. r.skip + count of the result set of r's
\* filters, written as that range; no summary is the empty array.
PageOf(r, t) ==
    LET count == Min(r.limit, Max(0, t - r.skip))
    IN  IF count = 0 THEN <<>>
        ELSE <<[filters |-> FiltersOf(r), first |-> r.skip + 1, count |-> count]>>

Length(items) == IF items = <<>> THEN 0 ELSE items[1].count

\* useCallback's dependencies: fetchTraces is a new function, and the effect that
\* calls it runs again, when one of them changed in the render.
DepsChanged(old, new) ==
    \/ old.skip # new.skip
    \/ old.tagFilter # new.tagFilter
    \/ old.nameSearch # new.nameSearch

\* The requests the effect issues after a render that took the state from old to new.
EffectRequests(kind, old, new) ==
    IF DepsChanged(old, new) THEN <<RequestOf(kind, new)>> ELSE <<>>

\* The spinner replaces the whole component, inputs and buttons included.
Spinner == list.loading /\ Length(list.items) = 0
PaginationShown == list.total > Limit
PreviousDisabled == list.skip = 0
NextDisabled == list.skip + Limit >= list.total

BagOfSeq(s) ==
    LET range == {s[i] : i \in DOMAIN s}
    IN  [r \in range |-> Cardinality({i \in DOMAIN s : s[i] = r})]

\* An event whose fetches do not call setLoading(true).
ListEventQuiet(st, direct) ==
    LET stale == IF direct THEN <<RequestOf(tab, list)>> ELSE <<>>
        issued == stale \o EffectRequests(tab, list, st)
    IN  /\ BagCardinality(inflight) + Len(issued) <= MaxInflight
        /\ list' = st
        /\ inflight' = inflight (+) BagOfSeq(issued)
        /\ lastReq' = IF issued # <<>> THEN issued[Len(issued)] ELSE lastReq
        /\ UNCHANGED <<tab, orphans, organizationId, lastResponse, serverTotal, uploadVars, overviewVars>>

\* An event of the list component: the handler took the state to st and, when
\* direct, called the fetch function of the current render.
ListEvent(st, direct) ==
    LET stale == IF direct THEN <<RequestOf(tab, list)>> ELSE <<>>
        issued == stale \o EffectRequests(tab, list, st)
    IN  /\ BagCardinality(inflight) + Len(issued) <= MaxInflight
        /\ list' = [st EXCEPT !.loading = IF issued # <<>> THEN TRUE ELSE @]
        /\ inflight' = inflight (+) BagOfSeq(issued)
        /\ lastReq' = IF issued # <<>> THEN issued[Len(issued)] ELSE lastReq
        /\ UNCHANGED <<tab, orphans, organizationId, lastResponse, serverTotal, uploadVars, overviewVars>>

\* The Search button and its handler: setSkip(0); fetchTraces()
handleSearch ==
    /\ tab \in ListKinds
    /\ ~Spinner
    /\ ListEvent([list EXCEPT !.skip = 0], TRUE)

\* A step back of one item, not of one page.
PreviousSkipByOne(skip) == Max(0, skip - 1)

PreviousSkip(skip) == Max(0, skip - Limit)

\* The state handlePreviousPage leaves: if (skip > 0) setSkip(Math.max(0, skip - limit))
PreviousPage(st) == IF st.skip > 0 THEN [st EXCEPT !.skip = PreviousSkip(st.skip)] ELSE st

\* The Previous button, disabled={skip === 0}, and its handler:
\* if (skip > 0) setSkip(Math.max(0, skip - limit))
handlePreviousPage ==
    /\ tab \in ListKinds
    /\ ~Spinner /\ PaginationShown /\ ~PreviousDisabled
    /\ ListEvent(PreviousPage(list), FALSE)

\* A check that lets every call through.
NextAlways(skip, total) == TRUE

NextAllowed(skip, total) == skip + Limit < total

\* A step forward of one item, not of one page.
NextPageByOne(st) ==
    IF NextAllowed(st.skip, st.total) THEN [st EXCEPT !.skip = st.skip + 1] ELSE st

\* The state handleNextPage leaves: if (skip + limit < total) setSkip(skip + limit)
NextPage(st) ==
    IF NextAllowed(st.skip, st.total) THEN [st EXCEPT !.skip = st.skip + Limit] ELSE st

\* A Next button that is never disabled, on a handler that does not check.
handleNextPageUnchecked ==
    /\ tab \in ListKinds
    /\ ~Spinner /\ PaginationShown
    /\ ListEvent([list EXCEPT !.skip = list.skip + Limit], FALSE)

\* The Next button, disabled={skip + limit >= total}, and its handler:
\* if (skip + limit < total) setSkip(skip + limit)
handleNextPage ==
    /\ tab \in ListKinds
    /\ ~Spinner /\ PaginationShown /\ ~NextDisabled
    /\ ListEvent(NextPage(list), FALSE)

\* onChange of the tag input: setTagFilter(e.target.value)
setTagFilter ==
    /\ tab \in ListKinds
    /\ ~Spinner
    /\ \E v \in TagTexts \ {list.tagFilter} :
            ListEvent([list EXCEPT !.tagFilter = v], FALSE)

\* onChange of the search input (the severity select of the logs list)
setNameSearch ==
    /\ tab \in ListKinds
    /\ ~Spinner
    /\ \E v \in SearchTexts(tab) \ {list.nameSearch} :
            ListEvent([list EXCEPT !.nameSearch = v], FALSE)

\* The response to request r when the result set of its filters holds t items.
Response(r, t) == [items |-> PageOf(r, t), total |-> t, skip |-> r.skip, limit |-> r.limit]

\* A guard that drops the response of any request but the one issued last.
AppliedIfLatest(st, r, response) ==
    IF r = lastReq THEN [st EXCEPT !.items = response.items, !.total = response.total]
    ELSE st

\* A response that takes skip back to the last page of the total received.
AppliedClamping(st, r, response) ==
    [st EXCEPT !.items = response.items, !.total = response.total,
               !.skip = IF response.total <= @ THEN 0 ELSE @]

\* A response that clears the error of an earlier failure.
AppliedClearingError(st, r, response) ==
    [st EXCEPT !.items = response.items, !.total = response.total, !.error = Null]

\* setTraces(response.traces); setTotal(response.total)
Applied(st, r, response) ==
    [st EXCEPT !.items = response.items, !.total = response.total]

\* A fetch function with no finally block.
FinallyMissing(st) == st

\* finally { setLoading(false) }
Finally(st) == [st EXCEPT !.loading = FALSE]

\* A list that keeps its response in a store the overview reads its traces from.
FulfilledShared(r, t) ==
    /\ list' = Finally(Applied(list, r, Response(r, t)))
    /\ inflight' = inflight (-) SetToBag({r})
    /\ lastResponse' = <<Response(r, t)>>
    /\ overview' = [overview EXCEPT !.tracesData = <<Response(r, t)>>]
    /\ UNCHANGED <<tab, orphans, organizationId, lastReq, serverTotal, uploadVars, fetches,
                   lastRejected>>

\* The list call of request r resolves with total t: the rest of the try block,
\* then finally.
Fulfilled(r, t) ==
    /\ list' = Finally(Applied(list, r, Response(r, t)))
    /\ inflight' = inflight (-) SetToBag({r})
    /\ lastResponse' = <<Response(r, t)>>
    /\ UNCHANGED <<tab, orphans, organizationId, lastReq, serverTotal, uploadVars, overviewVars>>

\* A catch block that also drops the items shown.
FailedClearing(st, thrown) ==
    [st EXCEPT !.error = ErrorText(thrown, Fallback(tab)), !.items = <<>>, !.total = 0]

\* setError(err instanceof Error ? err.message : 'Failed to load traces')
Failed(st, thrown) == [st EXCEPT !.error = ErrorText(thrown, Fallback(tab))]

\* A catch block that calls the fetch function again.
RejectedRetrying(r, thrown) ==
    /\ list' = [Failed(list, thrown) EXCEPT !.loading = TRUE]
    /\ UNCHANGED <<tab, orphans, organizationId, inflight, lastReq, lastResponse, serverTotal,
                   uploadVars, overviewVars>>

\* The list call of request r rejects: catch, then finally.
Rejected(r, thrown) ==
    /\ list' = Finally(Failed(list, thrown))
    /\ inflight' = inflight (-) SetToBag({r})
    /\ UNCHANGED <<tab, orphans, organizationId, lastReq, lastResponse, serverTotal, uploadVars, overviewVars>>

listFulfilled ==
    /\ tab \in ListKinds
    /\ \E r \in BagToSet(inflight), t \in ChangingTotals : Fulfilled(r, t)

listFulfilledFixed ==
    /\ tab \in ListKinds
    /\ \E r \in BagToSet(inflight) : Fulfilled(r, serverTotal)

listRejected ==
    /\ tab \in ListKinds
    /\ \E r \in BagToSet(inflight), thrown \in Thrown : Rejected(r, thrown)

\* The mount of a list component: the initial state, and the effect's first fetch.
ListMounted(kind) ==
    /\ tab = kind
    /\ list = ListInitial
    /\ inflight = SetToBag({RequestOf(kind, ListInitial)})
    /\ lastReq = RequestOf(kind, ListInitial)
    /\ lastResponse = <<>>

ListInit ==
    /\ organizationId = "org1"
    /\ orphans = 0
    /\ \E kind \in ListKinds : ListMounted(kind)
    /\ serverTotal = 0
    /\ UploadUnmounted
    /\ OverviewUnmounted

ListFixedInit ==
    /\ organizationId = "org1"
    /\ orphans = 0
    /\ \E kind \in ListKinds : ListMounted(kind)
    /\ serverTotal \in Totals
    /\ UploadUnmounted
    /\ OverviewUnmounted

ListUser ==
    \/ handleSearch
    \/ handlePreviousPage
    \/ handleNextPage
    \/ setTagFilter
    \/ setNameSearch

ListNext ==
    \/ ListUser
    \/ listFulfilled
    \/ listRejected

ListFixedNext ==
    \/ ListUser
    \/ listFulfilledFixed
    \/ listRejected

\* A list component against a server whose data change at will.
ListSpec == ListInit /\ [][ListNext]_vars

\* The same, where a list call that is outstanding is settled in the end.
ListLiveSpec == ListSpec /\ WF_vars(listFulfilled \/ listRejected)

\* A list component against a server whose result set keeps its size.
ListFixedSpec == ListFixedInit /\ [][ListFixedNext]_vars


(***************************************************************************)
(* TelemetryUpload.                                                        *)
(***************************************************************************)
UploadKinds == <<"traces", "metrics", "logs">>

\* A text is a sequence of characters. A letter stands for one member of an
\* object, "name": "<the letter>", and a digit for a number.
MemberNames == <<"a", "b", "c", "d">>
Members == {MemberNames[i] : i \in DOMAIN MemberNames}
Digits == {"1"}
Whitespace == {" "}

ObjectText(i) == <<"{", MemberNames[i], "}">>

RECURSIVE ElementsText(_)
ElementsText(n) ==
    IF n = 0 THEN <<>>
    ELSE IF n = 1 THEN ObjectText(1)
    ELSE ElementsText(n - 1) \o <<",", " ">> \o ObjectText(n)

\* [{"name": "a"}, {"name": "b"}, ...], of n objects
ArrayText(n) == <<"[">> \o ElementsText(n) \o <<"]">>

\* The texts typed into the textarea.
Texts ==
    {<<>>, <<" ">>, <<"{", "a">>, <<"{", "a", "}", "}">>, <<"1">>, ObjectText(1)}
        \cup {ArrayText(n) : n \in 0..MaxBatch}

\* String.prototype.trim
RECURSIVE TrimStart(_)
TrimStart(text) ==
    IF text # <<>> /\ Head(text) \in Whitespace THEN TrimStart(Tail(text)) ELSE text

RECURSIVE TrimEnd(_)
TrimEnd(text) ==
    IF text # <<>> /\ text[Len(text)] \in Whitespace
    THEN TrimEnd(SubSeq(text, 1, Len(text) - 1))
    ELSE text

Trim(text) == TrimEnd(TrimStart(text))

\* JSON.parse, on these texts: [ok |-> TRUE, value, next] with the value read from
\* position i and the position after it, or [ok |-> FALSE, thrown] with the
\* SyntaxError.
SyntaxError(text, i) ==
    [ok |-> FALSE,
     thrown |-> [isError |-> TRUE,
                 message |-> IF i > Len(text) THEN "Unexpected end of JSON input"
                             ELSE "Unexpected token " \o text[i] \o " in JSON"]]

RECURSIVE SkipWhitespace(_, _)
SkipWhitespace(text, i) ==
    IF i <= Len(text) /\ text[i] \in Whitespace THEN SkipWhitespace(text, i + 1) ELSE i

RECURSIVE ParseValue(_, _), ParseMembers(_, _, _), ParseElements(_, _, _)

\* The members of an object, from position i, after those in acc.
ParseMembers(text, i, acc) ==
    LET j == SkipWhitespace(text, i)
        k == SkipWhitespace(text, j + 1)
    IN  IF j <= Len(text) /\ text[j] \in Members
        THEN IF k <= Len(text) /\ text[k] = ","
             THEN ParseMembers(text, k + 1, Append(acc, text[j]))
             ELSE IF k <= Len(text) /\ text[k] = "}"
             THEN [ok |-> TRUE, next |-> k + 1,
                   value |-> [type |-> "object", members |-> Append(acc, text[j])]]
             ELSE SyntaxError(text, k)
        ELSE SyntaxError(text, j)

\* The elements of an array, from position i, after those in acc.
ParseElements(text, i, acc) ==
    LET element == ParseValue(text, i)
        k == SkipWhitespace(text, element.next)
    IN  IF ~element.ok THEN element
        ELSE IF k <= Len(text) /\ text[k] = ","
        THEN ParseElements(text, k + 1, Append(acc, element.value))
        ELSE IF k <= Len(text) /\ text[k] = "]"
        THEN [ok |-> TRUE, next |-> k + 1,
              value |-> [type |-> "array", elements |-> Append(acc, element.value)]]
        ELSE SyntaxError(text, k)

ParseValue(text, i) ==
    LET j == SkipWhitespace(text, i)
        k == SkipWhitespace(text, j + 1)
    IN  IF j > Len(text) THEN SyntaxError(text, j)
        ELSE IF text[j] \in Digits
        THEN [ok |-> TRUE, next |-> j + 1, value |-> [type |-> "number", text |-> text[j]]]
        ELSE IF text[j] = "{"
        THEN IF k <= Len(text) /\ text[k] = "}"
             THEN [ok |-> TRUE, next |-> k + 1,
                   value |-> [type |-> "object", members |-> <<>>]]
             ELSE ParseMembers(text, j + 1, <<>>)
        ELSE IF text[j] = "["
        THEN IF k <= Len(text) /\ text[k] = "]"
             THEN [ok |-> TRUE, next |-> k + 1,
                   value |-> [type |-> "array", elements |-> <<>>]]
             ELSE ParseElements(text, j + 1, <<>>)
        ELSE SyntaxError(text, j)

JSONParse(text) ==
    LET parsed == ParseValue(text, 1)
        end == SkipWhitespace(text, parsed.next)
    IN  IF ~parsed.ok THEN parsed
        ELSE IF end <= Len(text) THEN SyntaxError(text, end)
        ELSE parsed

\* A normalisation that wraps whatever was parsed.
AlwaysWrapped(value) == <<value>>

\* Array.isArray(traces) ? traces : [traces]
AsBatch(value) == IF value.type = "array" THEN value.elements ELSE <<value>>

\* The buffer the switch on kind reads: tracesData, metricsData or logsData.
Buffer(st, kind) ==
    CASE kind = "traces" -> st.tracesData
      [] kind = "metrics" -> st.metricsData
      [] kind = "logs" -> st.logsData

\* The state after the setter the switch on kind calls.
WithBuffer(st, kind, text) ==
    CASE kind = "traces" -> [st EXCEPT !.tracesData = text]
      [] kind = "metrics" -> [st EXCEPT !.metricsData = text]
      [] kind = "logs" -> [st EXCEPT !.logsData = text]

getCurrentData == Buffer(upload, upload.activeTab)

\* trace(s), metric(s), log(s)
Noun(kind) ==
    CASE kind = "traces" -> "trace" [] kind = "metrics" -> "metric" [] kind = "logs" -> "log"

\* `Successfully uploaded ${result.traces.length} trace(s)`
SuccessText(kind, n) == "Successfully uploaded " \o ToString(n) \o " " \o Noun(kind) \o "(s)"

\* An Upload button that is disabled only while an upload is outstanding.
UploadDisabledWhileLoading == upload.loading

\* An Upload button that looks at the text only.
UploadDisabledWhenBlank == Trim(getCurrentData) = <<>>

\* The Upload button: disabled={loading || !getCurrentData().trim()}
UploadDisabled == upload.loading \/ Trim(getCurrentData) = <<>>

\* A switch of kind that starts the new kind with an empty input.
setActiveTabClearing ==
    /\ tab = "upload"
    /\ \E i \in DOMAIN UploadKinds :
            /\ UploadKinds[i] # upload.activeTab
            /\ upload' = WithBuffer([upload EXCEPT !.activeTab = UploadKinds[i]],
                                    UploadKinds[i], <<>>)
    /\ UNCHANGED <<tab, orphans, organizationId, listVars, uploading, overviewVars>>

\* The tab buttons: setActiveTab(tab.id)
setActiveTab ==
    /\ tab = "upload"
    /\ \E i \in DOMAIN UploadKinds :
            /\ UploadKinds[i] # upload.activeTab
            /\ upload' = [upload EXCEPT !.activeTab = UploadKinds[i]]
    /\ UNCHANGED <<tab, orphans, organizationId, listVars, uploading, overviewVars>>

\* onChange of the textarea: setCurrentData(e.target.value)
setCurrentData ==
    /\ tab = "upload"
    /\ \E text \in Texts \ {getCurrentData} :
            upload' = WithBuffer(upload, upload.activeTab, text)
    /\ UNCHANGED <<tab, orphans, organizationId, listVars, uploading, overviewVars>>

\* A parse failure that is reported and clears the input.
ParseFailedClearing(st, thrown) ==
    [WithBuffer(st, st.activeTab, <<>>) EXCEPT
        !.loading = FALSE, !.error = ErrorText(thrown, "Upload failed"), !.success = Null]

\* A parse failure that leaves the message of the upload before it.
ParseFailedKeepingSuccess(st, thrown) ==
    [st EXCEPT !.loading = FALSE, !.error = ErrorText(thrown, "Upload failed")]

\* JSON.parse threw: catch, then finally, in the event of the click.
ParseFailed(st, thrown) ==
    [st EXCEPT !.loading = FALSE, !.error = ErrorText(thrown, "Upload failed"),
               !.success = Null]

\* The Upload button and handleUpload as far as its await.
handleUpload ==
    LET parsed == JSONParse(getCurrentData)
    IN  /\ tab = "upload"
        /\ ~UploadDisabled
        /\ IF parsed.ok
           THEN /\ upload' = [upload EXCEPT !.loading = TRUE, !.error = Null,
                                            !.success = Null]
                /\ uploading' = <<[kind |-> upload.activeTab,
                                   organizationId |-> organizationId,
                                   items |-> AsBatch(parsed.value)]>>
           ELSE /\ upload' = ParseFailed(upload, parsed.thrown)
                /\ uploading' = uploading
        /\ UNCHANGED <<tab, orphans, organizationId, listVars, overviewVars>>

\* A completion that empties the text area that is shown.
UploadedActive(st, request, created) ==
    [WithBuffer(st, st.activeTab, <<>>) EXCEPT
        !.success = SuccessText(request.kind, created)]

\* A completion that reports the number of items sent.
UploadedCountingSent(st, request, created) ==
    [WithBuffer(st, request.kind, <<>>) EXCEPT
        !.success = SuccessText(request.kind, Len(request.items))]

\* setSuccess(`Successfully uploaded ${result.traces.length} trace(s)`);
\* setTracesData(''), in the case of the kind the handler was called for
Uploaded(st, request, created) ==
    [WithBuffer(st, request.kind, <<>>) EXCEPT
        !.success = SuccessText(request.kind, created)]

\* The upload call resolves with `created` summaries: the rest of the case, then
\* finally.
UploadFulfilled(created) ==
    /\ tab = "upload"
    /\ uploading # <<>>
    /\ upload' = [Uploaded(upload, uploading[1], created) EXCEPT !.loading = FALSE]
    /\ uploading' = <<>>
    /\ UNCHANGED <<tab, orphans, organizationId, listVars, overviewVars>>

uploadFulfilled == \E created \in 0..MaxBatch : UploadFulfilled(created)

\* A catch block that also clears the input.
UploadFailedClearing(st, request, thrown) ==
    [WithBuffer(st, request.kind, <<>>) EXCEPT !.error = ErrorText(thrown, "Upload failed")]

\* setError(err instanceof Error ? err.message : 'Upload failed')
UploadFailed(st, request, thrown) == [st EXCEPT !.error = ErrorText(thrown, "Upload failed")]

\* A rejection whose handler has no finally block.
UploadRejectedBusy(thrown) ==
    /\ tab = "upload"
    /\ uploading # <<>>
    /\ upload' = UploadFailed(upload, uploading[1], thrown)
    /\ uploading' = <<>>
    /\ UNCHANGED <<tab, orphans, organizationId, listVars, overviewVars>>

\* The upload call rejects: catch, then finally.
UploadRejected(thrown) ==
    /\ tab = "upload"
    /\ uploading # <<>>
    /\ upload' = [UploadFailed(upload, uploading[1], thrown) EXCEPT !.loading = FALSE]
    /\ uploading' = <<>>
    /\ UNCHANGED <<tab, orphans, organizationId, listVars, overviewVars>>

uploadRejected == \E thrown \in Thrown : UploadRejected(thrown)

UploadInit ==
    /\ tab = "upload"
    /\ organizationId = "org1"
    /\ orphans = 0
    /\ upload = UploadInitial
    /\ uploading = <<>>
    /\ ListUnmounted
    /\ OverviewUnmounted

UploadNext ==
    \/ setActiveTab
    \/ setCurrentData
    \/ handleUpload
    \/ uploadFulfilled
    \/ uploadRejected

UploadSpec == UploadInit /\ [][UploadNext]_vars

\* The times at which a sample is asked for, as new Date() gives them.
Times == {1, 2}

\* getSampleData at time now: JSON.stringify of one object per kind, written as
\* the object of one member; the member of the logs sample is its timestamp, new
\* Date().toISOString().
getSampleData(kind, now) ==
    CASE kind = "traces" -> ObjectText(1)
      [] kind = "metrics" -> ObjectText(2)
      [] kind = "logs" -> ObjectText(2 + now)

\* A button that loads the samples of the three kinds at once.
loadSampleDataAll ==
    /\ tab = "upload"
    /\ \E now \in Times :
            upload' = [upload EXCEPT !.tracesData = getSampleData("traces", now),
                                     !.metricsData = getSampleData("metrics", now),
                                     !.logsData = getSampleData("logs", now)]
    /\ UNCHANGED <<tab, orphans, organizationId, listVars, uploading, overviewVars>>

\* The Load Sample Data button: loadSampleData
loadSampleData ==
    /\ tab = "upload"
    /\ \E now \in Times :
            upload' = WithBuffer(upload, upload.activeTab,
                                 getSampleData(upload.activeTab, now))
    /\ UNCHANGED <<tab, orphans, organizationId, listVars, uploading, overviewVars>>

\* The uploader of a user who types nothing and loads the samples.
SampleNext ==
    \/ setActiveTab
    \/ loadSampleData
    \/ handleUpload
    \/ uploadFulfilled
    \/ uploadRejected

SampleSpec == UploadInit /\ [][SampleNext]_vars

(***************************************************************************)
(* TelemetryOverview.                                                      *)
(***************************************************************************)
OverviewLimit == 5

\* The summaries the server holds per organization and kind while the overview
\* is open: more than a page of the overview, less than one, and none.
ServerCount(org, kind) ==
    IF org = "org1" THEN OverviewLimit + 2
    ELSE IF kind = "logs" THEN 0 ELSE OverviewLimit - 2

\* An overview that asks for a page of the size of the lists' pages.
OverviewRequestListPage(kind, org) ==
    [kind |-> kind, organizationId |-> org, limit |-> Limit, skip |-> Undefined,
     tagIds |-> Undefined, search |-> Undefined]

\* The arguments of the three list calls: listTelemetryTracesApi({ organizationId,
\* limit: 5 }) and the like.
OverviewRequest(kind, org) ==
    [kind |-> kind, organizationId |-> org, limit |-> OverviewLimit, skip |-> Undefined,
     tagIds |-> Undefined, search |-> Undefined]

\* The skip of a list call as the API takes it: 0 where none is given.
SkipOrDefault(r) == IF r.skip = Undefined THEN 0 ELSE r.skip

\* The response to request r: the first summaries of its collection, written as
\* their number, and the total.
OverviewResponse(r) ==
    LET t == ServerCount(r.organizationId, r.kind)
    IN  [kind |-> r.kind, organizationId |-> r.organizationId, count |-> Min(r.limit, t),
         total |-> t]

\* fetchOverviewData as far as its await: the three calls of Promise.all, none
\* settled yet.
OverviewFetch(org) ==
    [organizationId |-> org, responses |-> [k \in ListKinds |-> <<>>]]

\* A fetch that stores each response as it arrives.
StoredOneByOne(st, responses) ==
    [st EXCEPT !.tracesData = IF responses["traces"] # <<>> THEN responses["traces"] ELSE @,
               !.metricsData = IF responses["metrics"] # <<>> THEN responses["metrics"] ELSE @,
               !.logsData = IF responses["logs"] # <<>> THEN responses["logs"] ELSE @]

\* A fetch that keeps the logs it has once it has some.
StoredKeepingLogs(st, responses) ==
    IF \A k \in ListKinds : responses[k] # <<>>
    THEN [st EXCEPT !.tracesData = responses["traces"],
                    !.metricsData = responses["metrics"],
                    !.logsData = IF @ = <<>> THEN responses["logs"] ELSE @]
    ELSE st

\* A fetch that clears the error of an earlier one when it stores its data.
StoredClearingError(st, responses) ==
    IF \A k \in ListKinds : responses[k] # <<>>
    THEN [st EXCEPT !.tracesData = responses["traces"],
                    !.metricsData = responses["metrics"],
                    !.logsData = responses["logs"],
                    !.error = Null]
    ELSE st

\* Once Promise.all has resolved: setTracesData(traces); setMetricsData(metrics);
\* setLogsData(logs)
Stored(st, responses) ==
    IF \A k \in ListKinds : responses[k] # <<>>
    THEN [st EXCEPT !.tracesData = responses["traces"],
                    !.metricsData = responses["metrics"],
                    !.logsData = responses["logs"]]
    ELSE st

\* What the component renders: the spinner, the error alone, or the summary (a
\* total and the recent items per kind; `tracesData?.total || 0`).
Shown(data) == IF data = <<>> THEN [total |-> 0, recent |-> 0]
               ELSE [total |-> data[1].total, recent |-> data[1].count]

Rendered(st) ==
    IF st.loading THEN [view |-> "loading"]
    ELSE IF st.error # Null /\ st.error # "" THEN [view |-> "error", message |-> st.error]
    ELSE [view |-> "summary", traces |-> Shown(st.tracesData),
          metrics |-> Shown(st.metricsData), logs |-> Shown(st.logsData)]

\* The list call of kind k of fetch f resolves. Promise.all resolves with the last
\* of the three: the rest of the try block, then finally.
OverviewCallFulfilled(f, k) ==
    LET request == OverviewRequest(k, f.organizationId)
        responses == [f.responses EXCEPT ![k] = <<OverviewResponse(request)>>]
        all == \A j \in ListKinds : responses[j] # <<>>
    IN  /\ tab = "overview"
        /\ f.responses[k] = <<>>
        /\ overview' = [Stored(overview, responses) EXCEPT
                            !.loading = IF all THEN FALSE ELSE @]
        /\ fetches' = IF all THEN fetches (-) SetToBag({f})
                      ELSE (fetches (-) SetToBag({f}))
                               (+) SetToBag({[f EXCEPT !.responses = responses]})
        /\ UNCHANGED <<tab, orphans, organizationId, listVars, uploadVars, lastRejected>>

\* The list call of kind k of fetch f rejects, and Promise.all with it: catch, then
\* finally. What the other calls of the fetch do later reaches no handler.
OverviewCallRejected(f, k, thrown) ==
    /\ tab = "overview"
    /\ f.responses[k] = <<>>
    /\ overview' = [overview EXCEPT
                        !.error = ErrorText(thrown, "Failed to load telemetry data"),
                        !.loading = FALSE]
    /\ fetches' = fetches (-) SetToBag({f})
    /\ lastRejected' = <<[kind |-> k,
                          resolved |-> {j \in ListKinds : f.responses[j] # <<>>}]>>
    /\ UNCHANGED <<tab, orphans, organizationId, listVars, uploadVars>>

overviewCallFulfilled ==
    \E f \in BagToSet(fetches), k \in ListKinds : OverviewCallFulfilled(f, k)

overviewCallRejected ==
    \E f \in BagToSet(fetches), k \in ListKinds, thrown \in Thrown :
        OverviewCallRejected(f, k, thrown)

\* A change of organization whose effect has a cleanup that drops the fetches
\* of the organization before.
overviewOrganizationChangedCancelling ==
    /\ tab = "overview"
    /\ BagCardinality(fetches) < MaxFetches
    /\ \E org \in Organizations \ {organizationId} :
            /\ organizationId' = org
            /\ fetches' = SetToBag({OverviewFetch(org)})
    /\ overview' = [overview EXCEPT !.loading = TRUE]
    /\ UNCHANGED <<tab, orphans, listVars, uploadVars, lastRejected>>

\* The organizationId of the props changes: the effect runs again.
overviewOrganizationChanged ==
    /\ tab = "overview"
    /\ BagCardinality(fetches) < MaxFetches
    /\ \E org \in Organizations \ {organizationId} :
            /\ organizationId' = org
            /\ fetches' = fetches (+) SetToBag({OverviewFetch(org)})
    /\ overview' = [overview EXCEPT !.loading = TRUE]
    /\ UNCHANGED <<tab, orphans, listVars, uploadVars, lastRejected>>

\* The mount: the initial state, and the effect's first fetch.
OverviewInit ==
    /\ tab = "overview"
    /\ organizationId = "org1"
    /\ orphans = 0
    /\ overview = OverviewInitial
    /\ fetches = SetToBag({OverviewFetch(organizationId)})
    /\ lastRejected = <<>>
    /\ ListUnmounted
    /\ UploadUnmounted

OverviewNext ==
    \/ overviewCallFulfilled
    \/ overviewCallRejected
    \/ overviewOrganizationChanged

OverviewSpec == OverviewInit /\ [][OverviewNext]_vars

(***************************************************************************)
(* The page: whichever component the tab of its URL mounts.                *)
(***************************************************************************)
PageInit ==
    \/ ListInit
    \/ UploadInit
    \/ OverviewInit

PageNext ==
    \/ ListNext
    \/ UploadNext
    \/ OverviewNext

PageSpec == PageInit /\ [][PageNext]_vars

(***************************************************************************)
(* The page across changes of its tab. The component of the old tab is     *)
(* unmounted with its state; the calls it was waiting for are settled      *)
(* later, and their continuations set the state of a component that is     *)
(* gone.                                                                   *)
(***************************************************************************)
Tabs == {"overview", "traces", "metrics", "logs", "upload"}

\* The operations of the mounted component that wait for a call: the list calls,
\* the upload call, the overview fetches.
Outstanding == BagCardinality(inflight) + Len(uploading) + BagCardinality(fetches)

\* A continuation that clears the spinner of whatever list is mounted.
orphanSettledShared ==
    /\ orphans > 0
    /\ orphans' = orphans - 1
    /\ list' = Finally(list)
    /\ UNCHANGED <<tab, organizationId, inflight, lastReq, lastResponse, serverTotal,
                   uploadVars, overviewVars>>

\* A call of an unmounted component is settled, resolved or rejected: the state
\* its continuation sets is no state of the page any more.
orphanSettled ==
    /\ orphans > 0
    /\ orphans' = orphans - 1
    /\ UNCHANGED <<tab, organizationId, listVars, uploadVars, overviewVars>>

\* A click on a tab: handleTabChange pushes the URL of the tab, and the page
\* renders the component of the new tab in place of the old one's.
handleTabChange ==
    \E newValue \in Tabs \ {tab} :
        /\ orphans + Outstanding <= MaxOrphans
        /\ orphans' = orphans + Outstanding
        /\ tab' = newValue
        /\ list' = ListInitial
        /\ inflight' = IF newValue \in ListKinds
                       THEN SetToBag({RequestOf(newValue, ListInitial)}) ELSE EmptyBag
        /\ lastReq' = IF newValue \in ListKinds THEN RequestOf(newValue, ListInitial) ELSE <<>>
        /\ lastResponse' = <<>>
        /\ upload' = UploadInitial
        /\ uploading' = <<>>
        /\ overview' = OverviewInitial
        /\ fetches' = IF newValue = "overview"
                      THEN SetToBag({OverviewFetch(organizationId)}) ELSE EmptyBag
        /\ lastRejected' = <<>>
        /\ UNCHANGED <<organizationId, serverTotal>>

NavNext ==
    \/ handleTabChange
    \/ orphanSettled
    \/ listFulfilled
    \/ listRejected
    \/ handleSearch
    \/ handleNextPage
    \/ handlePreviousPage
    \/ setTagFilter
    \/ setCurrentData
    \/ handleUpload
    \/ uploadFulfilled
    \/ uploadRejected
    \/ overviewCallFulfilled
    \/ overviewCallRejected

NavSpec == PageInit /\ [][NavNext]_vars

(***************************************************************************)
(* The claims about the list components.                                   *)
(***************************************************************************)
\* The requests a step issued.
Issued == inflight' (-) inflight

\* C1: a search called with skip > 0 issues list requests that all carry skip = 0;
\* none carries the skip from before the search.
C1_SearchRequestsCarrySkipZero ==
    [][(list.skip > 0 /\ handleSearch) => \A r \in BagToSet(Issued) : r.skip = 0]_vars

\* C2: against a server whose total is fixed, paging forward from skip = 0 never
\* takes skip to the total or past it when the total is positive, and paging back
\* never takes it below 0; so it is for the skip of every request outstanding.
C2_PaginationBounds ==
    /\ list.skip >= 0
    /\ serverTotal > 0 => list.skip < serverTotal
    /\ \A r \in BagToSet(inflight) :
            r.skip >= 0 /\ (serverTotal > 0 => r.skip < serverTotal)

\* nextPage has reached the last page of a result set of more than one page.
C2_Witness ==
    /\ list.skip > 0
    /\ list.total = serverTotal
    /\ list.skip + Limit >= serverTotal

\* C3: issuing a request settles no request outstanding, a step settles at most
\* one, and after any fulfilled response items and total are those of the response
\* received last, whether its request was issued before or after the others.
C3_LastResponseWins ==
    /\ [](lastResponse # <<>> =>
            /\ list.items = lastResponse[1].items
            /\ list.total = lastResponse[1].total)
    /\ [][/\ ListUser => inflight \sqsubseteq inflight'
          /\ BagCardinality(inflight') >= BagCardinality(inflight) - 1]_vars

\* Every request was fulfilled, none is outstanding, and the items shown are not
\* those of the request issued last: an older request's response arrived after it.
C3_Witness ==
    /\ inflight = EmptyBag
    /\ list.error = Null
    /\ list.items # <<>>
    /\ lastResponse # <<>> /\ lastResponse[1].items = list.items
    /\ \/ list.items[1].first # list.skip + 1
       \/ list.items[1].filters # FiltersOf(lastReq)

\* C4: the rejection of a list call leaves items and total as they were, sets error
\* to the message of the failure and loading to false; and since only a fulfilled
\* response changes items or total, they are then as they were before the call
\* unless another response arrived meanwhile.
C4_StaleOnError ==
    [][/\ \A r \in BagToSet(inflight), thrown \in Thrown :
            Rejected(r, thrown) =>
                /\ list'.items = list.items
                /\ list'.total = list.total
                /\ list'.error = IF thrown.isError THEN thrown.message
                                 ELSE "Failed to load " \o tab
                /\ list'.loading = FALSE
       /\ (list'.items # list.items \/ list'.total # list.total) =>
            \E r \in BagToSet(inflight), t \in ChangingTotals : Fulfilled(r, t)]_vars

\* A refresh failed while a page was shown, and the page is still shown.
C4_Witness ==
    /\ list.error # Null
    /\ ~list.loading
    /\ list.items # <<>> /\ list.total > 0
    /\ inflight = EmptyBag

\* C8: a list request whose filters differ from those of the request issued before
\* it carries skip = 0.
C8_FilterChangeStartsAtFirstPage ==
    [][\A r \in BagToSet(Issued) :
            FiltersOf(r) # FiltersOf(lastReq) => r.skip = 0]_vars

(***************************************************************************)
(* The claims about TelemetryUpload.                                       *)
(***************************************************************************)
Buffers(st) == <<st.tracesData, st.metricsData, st.logsData>>

SyntaxErrors ==
    {"Unexpected end of JSON input"} \cup
        {"Unexpected token " \o c \o " in JSON" : c \in {"{", "}", "[", "]", ",", "1", "a", "b"}}

\* The object {"name": "<name>"} as parsed.
Object(name) == [type |-> "object", members |-> <<name>>]

\* C5: the submit of a buffer that is not well-formed JSON sets error, leaves the
\* three buffers as they are, sets no success message and sends no upload request.
C5_ParseFailureIsolation ==
    [][(handleUpload /\ ~JSONParse(getCurrentData).ok) =>
            /\ upload'.error \in SyntaxErrors
            /\ Buffers(upload') = Buffers(upload)
            /\ upload'.success = Null
            /\ ~upload'.loading
            /\ uploading = <<>> /\ uploading' = <<>>]_vars

\* A submit of malformed logs input has failed, and the input is still there.
C5_Witness ==
    /\ upload.activeTab = "logs"
    /\ upload.logsData = <<"{", "a">>
    /\ upload.error = "Unexpected end of JSON input"
    /\ upload.success = Null
    /\ ~upload.loading /\ uploading = <<>>

\* C6: the submit of a buffer holding one object sends a batch of that one object,
\* and the submit of a buffer holding an array of n objects sends those n objects
\* in the order of the input, to the kind that is active.
C6_ArrayNormalization ==
    [][handleUpload =>
            /\ getCurrentData = ObjectText(1) =>
                    uploading' = <<[kind |-> upload.activeTab,
                                    organizationId |-> organizationId,
                                    items |-> <<Object("a")>>]>>
            /\ \A n \in 0..MaxBatch :
                    getCurrentData = ArrayText(n) =>
                        /\ Len(uploading') = 1
                        /\ uploading'[1].kind = upload.activeTab
                        /\ Len(uploading'[1].items) = n
                        /\ \A i \in 1..n :
                                uploading'[1].items[i] = Object(MemberNames[i])]_vars

\* An array of two metrics is on its way as two items, in the order typed.
C6_Witness ==
    /\ uploading # <<>>
    /\ uploading[1].kind = "metrics"
    /\ uploading[1].items = <<Object("a"), Object("b")>>
    /\ upload.loading

\* C9: the rejection of an upload call leaves the three buffers as they are, sets no
\* success message, and sets error to the message of the Error thrown.
C9_UploadFailureKeepsInput ==
    [][\A thrown \in Thrown :
            UploadRejected(thrown) =>
                /\ Buffers(upload') = Buffers(upload)
                /\ upload'.success = Null
                /\ ~upload'.loading
                /\ thrown.isError => upload'.error = thrown.message
                /\ ~thrown.isError => upload'.error = "Upload failed"]_vars

\* An upload was rejected with an Error: its message is shown, the input is kept.
C9_Witness ==
    /\ upload.error = "HTTP 500"
    /\ upload.success = Null
    /\ ~upload.loading
    /\ JSONParse(getCurrentData).ok

\* C10: when the upload call resolves with N summaries, the buffer of the kind
\* submitted is emptied, error is null, and success is "Successfully uploaded N
\* <kind>(s)"; N is the number of items sent when the backend echoes each.
C10_UploadSuccess ==
    [][\A created \in 0..MaxBatch :
            UploadFulfilled(created) =>
                LET kind == uploading[1].kind
                    text == "Successfully uploaded " \o ToString(created) \o
                                (CASE kind = "traces" -> " trace(s)"
                                   [] kind = "metrics" -> " metric(s)"
                                   [] kind = "logs" -> " log(s)")
                IN  /\ Buffer(upload', kind) = <<>>
                    /\ upload'.error = Null
                    /\ ~upload'.loading
                    /\ upload'.success = text
                    /\ created = Len(uploading[1].items) =>
                            upload'.success = SuccessText(kind, Len(uploading[1].items))]_vars

\* Two metrics were uploaded, the backend returned one summary, and one is reported.
C10_Witness ==
    /\ upload.success = "Successfully uploaded 1 metric(s)"
    /\ upload.metricsData = <<>>
    /\ upload.tracesData = ArrayText(2)
    /\ upload.error = Null
    /\ ~upload.loading

(***************************************************************************)
(* The claims about TelemetryOverview.                                     *)
(***************************************************************************)
Data(st) == <<st.tracesData, st.metricsData, st.logsData>>

\* C7: when a list call of an overview fetch rejects, whatever the other two did
\* or do, error is set to that one failure's message, the data stored are left as
\* they were, and what is rendered is the error alone; the data stored are at all
\* times the three responses of one fetch, or nothing.
C7_OverviewAllOrNothing ==
    /\ [](\/ Data(overview) = <<<<>>, <<>>, <<>>>>
          \/ \E org \in Organizations :
                Data(overview) = <<<<OverviewResponse(OverviewRequest("traces", org))>>,
                                   <<OverviewResponse(OverviewRequest("metrics", org))>>,
                                   <<OverviewResponse(OverviewRequest("logs", org))>>>>)
    /\ [][\A f \in BagToSet(fetches), k \in ListKinds, thrown \in Thrown :
            OverviewCallRejected(f, k, thrown) =>
                LET message == IF thrown.isError THEN thrown.message
                               ELSE "Failed to load telemetry data"
                IN  /\ overview'.error = message
                    /\ Data(overview') = Data(overview)
                    /\ Rendered(overview') = [view |-> "error", message |-> message]
                    /\ BagCardinality(fetches') = BagCardinality(fetches) - 1]_vars

\* The metrics call failed after the traces and the logs calls had resolved: the
\* error is rendered, and nothing is stored.
C7_Witness ==
    /\ lastRejected = <<[kind |-> "metrics", resolved |-> {"traces", "logs"}]>>
    /\ fetches = EmptyBag
    /\ Data(overview) = <<<<>>, <<>>, <<>>>>
    /\ Rendered(overview) = [view |-> "error", message |-> "HTTP 500"]

\* C11: every upload request sent carries a sequence of payload objects that is not
\* empty, of the kind that was active at the submit.
C11_UploadBatchNonEmpty ==
    uploading # <<>> =>
        /\ uploading[1].kind \in ListKinds
        /\ Len(uploading[1].items) > 0
        /\ \A i \in DOMAIN uploading[1].items : uploading[1].items[i].type = "object"

\* The text [] was submitted: an upload request with no item is on its way.
C11_EmptyBatchSent ==
    /\ uploading # <<>>
    /\ uploading[1].items = <<>>
    /\ upload.loading

\* C12: every step that settles a list call, resolved or rejected, leaves loading
\* false; and where every outstanding list call is settled in the end, loading is
\* false again and again.
C12_LoadingClearedOnCompletion ==
    /\ [][(listFulfilled \/ listRejected) => ~list'.loading]_vars
    /\ []<>(~list.loading)

\* The first list call of a component was rejected: the spinner is gone, with
\* nothing to show but the error.
C12_Witness ==
    /\ tab \in ListKinds
    /\ ~list.loading
    /\ list.error = "HTTP 500"
    /\ list.items = <<>>
    /\ inflight = EmptyBag

\* C13 as stated: loading is true for as long as any list call is outstanding.
C13_LoadingWhileOutstanding == inflight # EmptyBag => list.loading

\* C13: a step that issues a list call leaves loading true, and loading stays true
\* across every step that settles no list call; so a list call that is never
\* settled keeps loading true for as long as no other list call is settled.
C13_LoadingUntilCompletion ==
    /\ [][Issued # EmptyBag => list'.loading]_vars
    /\ [][(list.loading /\ ~(listFulfilled \/ listRejected)) => list'.loading]_vars

\* Two list calls are outstanding, the second issued by an event that came while
\* the first was: loading is true.
C13_Witness ==
    /\ BagCardinality(inflight) = 2
    /\ list.loading
    /\ list.items # <<>>

\* C14: where skip + limit >= total, by the total of the state, handleNextPage
\* leaves the state as it is and no list call follows; a click on Next comes only
\* where skip + limit < total, sets skip to skip + limit, and issues one list call,
\* with the new skip and the filters of the state.
C14_NextPage ==
    /\ [](list.skip + Limit >= list.total =>
            /\ NextPage(list) = list
            /\ EffectRequests(tab, list, NextPage(list)) = <<>>)
    /\ [][handleNextPage =>
            /\ list.skip + Limit < list.total
            /\ list'.skip = list.skip + Limit
            /\ list'.tagFilter = list.tagFilter /\ list'.nameSearch = list.nameSearch
            /\ Issued = SetToBag({RequestOf(tab, [list EXCEPT !.skip = list.skip + Limit])})]_vars

\* Next was clicked on the first of two pages: the call for the second page is
\* outstanding, and there is no page after it.
C14_Witness ==
    /\ list.skip = Limit
    /\ list.total = Limit + 1
    /\ list.loading
    /\ inflight = SetToBag({lastReq})
    /\ lastReq.skip = Limit
    /\ list.items # <<>> /\ list.items[1].first = 1

\* C15: where skip = 0, handlePreviousPage leaves the state as it is and no list
\* call follows; a click on Previous comes only where skip > 0, sets skip to
\* max(0, skip - limit), and issues one list call, with the new skip and the
\* filters of the state.
C15_PreviousPage ==
    /\ [](list.skip = 0 =>
            /\ PreviousPage(list) = list
            /\ EffectRequests(tab, list, PreviousPage(list)) = <<>>)
    /\ [][handlePreviousPage =>
            /\ list.skip > 0
            /\ list'.skip = Max(0, list.skip - Limit)
            /\ list'.tagFilter = list.tagFilter /\ list'.nameSearch = list.nameSearch
            /\ Issued = SetToBag({RequestOf(tab, [list EXCEPT
                                                    !.skip = Max(0, list.skip - Limit)])})]_vars

\* Previous was clicked on the second page: the call for the first page is
\* outstanding, the second page still shown.
C15_Witness ==
    /\ list.skip = 0
    /\ list.loading
    /\ inflight = SetToBag({lastReq})
    /\ lastReq.skip = 0
    /\ list.items # <<>> /\ list.items[1].first = Limit + 1

\* C16: in every state skip is a multiple of limit that is not negative, and every
\* list call outstanding carries limit 20 and such a skip.
C16_SkipMultipleOfLimit ==
    /\ Limit = 20
    /\ list.skip >= 0 /\ list.skip % 20 = 0
    /\ \A r \in BagToSet(inflight) : r.limit = 20 /\ r.skip >= 0 /\ r.skip % 20 = 0

\* The second page is shown while two list calls for it are outstanding, of
\* which one carries a filter.
C16_Witness ==
    /\ list.skip = 20
    /\ BagCardinality(inflight) = 2
    /\ \A r \in BagToSet(inflight) : r.skip = 20
    /\ \E r \in BagToSet(inflight) : r.tagIds # Undefined

(***************************************************************************)
(* The claims about the page.                                              *)
(***************************************************************************)
\* C17: the step in which a list call, an overview fetch or an upload call fails
\* issues no call, and a call is issued only in the step of a user's action: a
\* click on Search, Previous or Next, an edit of a filter, a change of the
\* organization, a click on Upload.
C17_NoAutomaticRetry ==
    [][/\ listRejected => BagCardinality(inflight') = BagCardinality(inflight) - 1
       /\ overviewCallRejected => BagCardinality(fetches') = BagCardinality(fetches) - 1
       /\ uploadRejected => uploading' = <<>>
       /\ BagCardinality(inflight') > BagCardinality(inflight) => ListUser
       /\ BagCardinality(fetches') > BagCardinality(fetches) => overviewOrganizationChanged
       /\ (uploading = <<>> /\ uploading' # <<>>) => handleUpload]_vars

\* An upload call was rejected with a value that is no Error: nothing is
\* outstanding, and the input is there to be submitted again.
C17_Witness ==
    /\ tab = "upload"
    /\ upload.error = "Upload failed"
    /\ uploading = <<>>
    /\ ~upload.loading
    /\ ~UploadDisabled

(***************************************************************************)
(* Further claims about TelemetryUpload.                                   *)
(***************************************************************************)
\* C18: one of the three kinds is active in every state; a switch of the active
\* kind changes the active kind and nothing else, and an edit changes the buffer
\* of the active kind and nothing else: the input of a kind is kept across the
\* switches and the edits of the other kinds.
C18_KindSwitchKeepsBuffers ==
    /\ [](upload.activeTab \in {"traces", "metrics", "logs"})
    /\ [][setActiveTab =>
            /\ upload'.activeTab # upload.activeTab
            /\ upload' = [upload EXCEPT !.activeTab = upload'.activeTab]
            /\ uploading' = uploading]_vars
    /\ [][setCurrentData =>
            \A kind \in ListKinds \ {upload.activeTab} :
                Buffer(upload', kind) = Buffer(upload, kind)]_vars

\* The logs kind is active with nothing typed, after an object was typed for
\* traces and an array for metrics: both are still there.
C18_Witness ==
    /\ upload.activeTab = "logs"
    /\ upload.tracesData = ObjectText(1)
    /\ upload.metricsData = ArrayText(2)
    /\ upload.logsData = <<>>

\* C19: where the buffer of the active kind is empty or holds only whitespace, the
\* Upload button is disabled: there is no submit, so no upload call is issued and
\* no error is set by one.
C19_BlankSubmitDisabled ==
    /\ [](Trim(getCurrentData) = <<>> => UploadDisabled)
    /\ [][handleUpload => Trim(getCurrentData) # <<>>]_vars
    /\ [][Trim(getCurrentData) = <<>> =>
            /\ uploading' # uploading => uploading' = <<>>
            /\ upload'.error # upload.error => uploadRejected]_vars

\* The buffer of the active kind holds a blank, with no upload outstanding: the
\* button is disabled, and nothing has been reported.
C19_Witness ==
    /\ tab = "upload"
    /\ getCurrentData = <<" ">>
    /\ UploadDisabled
    /\ ~upload.loading
    /\ uploading = <<>>
    /\ upload.error = Null /\ upload.success = Null

(***************************************************************************)
(* Further claims about TelemetryOverview.                                 *)
(***************************************************************************)
\* C20: an overview fetch makes three list calls, one for traces, one for metrics
\* and one for logs, each for the organization of the fetch with limit 5, no
\* filter and no skip, which the API takes as skip 0; the three are outstanding
\* together when the fetch starts, none of them settled.
C20_OverviewThreeCalls ==
    /\ [](\A f \in BagToSet(fetches) :
            /\ DOMAIN f.responses = {"traces", "metrics", "logs"}
            /\ \A k \in DOMAIN f.responses :
                    LET r == OverviewRequest(k, f.organizationId)
                    IN  /\ r.kind = k
                        /\ r.organizationId = f.organizationId
                        /\ r.limit = 5
                        /\ r.skip = Undefined /\ SkipOrDefault(r) = 0
                        /\ r.tagIds = Undefined /\ r.search = Undefined
                        /\ f.responses[k] # <<>> => f.responses[k] = <<OverviewResponse(r)>>)
    /\ [][overviewOrganizationChanged =>
            fetches' = fetches (+) SetToBag({[organizationId |-> organizationId',
                                              responses |-> [k \in ListKinds |-> <<>>]]})]_vars

\* The organization changed while the first fetch was waiting for its third
\* call: the second fetch has its three calls outstanding.
C20_Witness ==
    /\ tab = "overview"
    /\ organizationId = "org2"
    /\ BagCardinality(fetches) = 2
    /\ \E f \in BagToSet(fetches) :
            f.organizationId = "org2" /\ \A k \in ListKinds : f.responses[k] = <<>>
    /\ \E f \in BagToSet(fetches) :
            f.organizationId = "org1" /\ f.responses["logs"] = <<>>
                /\ f.responses["traces"] # <<>> /\ f.responses["metrics"] # <<>>

(***************************************************************************)
(* The claims about the page across changes of its tab.                    *)
(***************************************************************************)
\* C21: a step of a list component (a search, a page change, an edit of a filter,
\* the settling of one of its calls) leaves the uploader and the overview as they
\* are; while one component is mounted the others hold no state; and what the
\* overview stores are the responses to its own calls.
C21_ControllersIsolated ==
    /\ [][ListNext => UNCHANGED <<tab, upload, uploading, overview, fetches>>]_vars
    /\ [](/\ tab \in ListKinds => UploadUnmounted /\ overview = OverviewInitial
                                   /\ fetches = EmptyBag
          /\ tab = "upload" => ListUnmounted /\ overview = OverviewInitial
                                /\ fetches = EmptyBag
          /\ tab = "overview" => ListUnmounted /\ UploadUnmounted)
    /\ [][\A i \in DOMAIN UploadKinds :
            LET stored == Data(overview')[i]
                request == OverviewRequest(UploadKinds[i], organizationId)
            IN  (stored # <<>> /\ stored # Data(overview)[i])
                    => overviewCallFulfilled /\ stored = <<OverviewResponse(request)>>]_vars

\* The overview shows its summary while a call of a component unmounted before
\* it is outstanding: its data are the first five of each kind.
C21_Witness ==
    /\ tab = "overview"
    /\ orphans > 0
    /\ ~overview.loading
    /\ overview.tracesData # <<>>
    /\ overview.tracesData[1].count = 5
    /\ ListUnmounted

C23_UnmountDiscardsResponses ==
    /\ [][handleTabChange =>
            /\ tab' # tab
            /\ orphans' = orphans + Outstanding
            /\ tab' \in ListKinds =>
                    /\ list' = ListInitial
                    /\ inflight' = SetToBag({RequestOf(tab', ListInitial)})
                    /\ UploadUnmounted' /\ OverviewUnmounted'
            /\ tab' = "upload" => upload' = UploadInitial /\ uploading' = <<>>
                                    /\ ListUnmounted' /\ OverviewUnmounted'
            /\ tab' = "overview" => /\ overview' = OverviewInitial
                                    /\ fetches' = SetToBag({OverviewFetch(organizationId)})
                                    /\ ListUnmounted' /\ UploadUnmounted']_vars
    /\ [][orphans' < orphans =>
            UNCHANGED <<tab, list, inflight, lastReq, upload, uploading, overview, fetches>>]_vars

\* The traces list is mounted anew, waiting for its first page, while two calls
\* of components unmounted before it are outstanding.
C23_Witness ==
    /\ tab = "traces"
    /\ orphans = 2
    /\ list = ListInitial
    /\ inflight = SetToBag({RequestOf("traces", ListInitial)})

\* C24: a failure of a list call, of an overview fetch, of an upload call or of
\* the parse of a submit ends in the step that catches it, with one text in the
\* error of the component: the message of the Error thrown, or else the fixed
\* text of the component.
C24_FailureEndsInError ==
    /\ [](list.error \in STRING /\ upload.error \in STRING /\ overview.error \in STRING)
    /\ [][/\ \A r \in BagToSet(inflight), thrown \in Thrown :
                Rejected(r, thrown) =>
                    list'.error = IF thrown.isError THEN thrown.message
                                  ELSE CASE tab = "traces" -> "Failed to load traces"
                                         [] tab = "metrics" -> "Failed to load metrics"
                                         [] tab = "logs" -> "Failed to load logs"
          /\ \A f \in BagToSet(fetches), k \in ListKinds, thrown \in Thrown :
                OverviewCallRejected(f, k, thrown) =>
                    overview'.error = IF thrown.isError THEN thrown.message
                                      ELSE "Failed to load telemetry data"
          /\ \A thrown \in Thrown :
                UploadRejected(thrown) =>
                    upload'.error = IF thrown.isError THEN thrown.message
                                    ELSE "Upload failed"
          /\ (handleUpload /\ ~JSONParse(getCurrentData).ok) =>
                /\ upload'.error = JSONParse(getCurrentData).thrown.message
                /\ upload'.error \in SyntaxErrors]_vars

\* The overview's fetch failed with a value that is no Error: the fixed text of
\* the overview is its error, and nothing is outstanding.
C24_Witness ==
    /\ tab = "overview"
    /\ overview.error = "Failed to load telemetry data"
    /\ ~overview.loading
    /\ fetches = EmptyBag

(***************************************************************************)
(* Further claims about the list components.                               *)
(***************************************************************************)
\* C25: every list call issued carries as tagIds the text of the tag filter as it
\* is typed, and no tagIds where that text is empty; and likewise the text of the
\* search as nameSearch, or as severity in the logs list.
C25_FiltersSentAsTyped ==
    [][\A r \in BagToSet(Issued) :
            /\ r.tagIds = IF list'.tagFilter = "" THEN Undefined ELSE list'.tagFilter
            /\ tab = "logs" =>
                    /\ DOMAIN r = {"organizationId", "skip", "limit", "tagIds", "severity"}
                    /\ r.severity = IF list'.nameSearch = "" THEN Undefined
                                    ELSE list'.nameSearch
            /\ tab # "logs" =>
                    /\ DOMAIN r = {"organizationId", "skip", "limit", "tagIds", "nameSearch"}
                    /\ r.nameSearch = IF list'.nameSearch = "" THEN Undefined
                                      ELSE list'.nameSearch]_vars

\* The logs list waits for a call that carries the two tags typed, in one text,
\* and the severity chosen.
C25_Witness ==
    /\ tab = "logs"
    /\ list.tagFilter = "t1,t2" /\ list.nameSearch = "ERROR"
    /\ \E r \in BagToSet(inflight) : r.tagIds = "t1,t2" /\ r.severity = "ERROR"

\* C26: a list component is mounted, with the page or by a change of tab, with no
\* items, total 0, skip 0, empty filters, error null and loading true, and with
\* one list call outstanding, which carries skip 0, limit 20 and no filter.
C26_ListMount ==
    /\ tab \in ListKinds =>
            /\ list = [items |-> <<>>, total |-> 0, skip |-> 0, tagFilter |-> "",
                       nameSearch |-> "", error |-> Null, loading |-> TRUE]
            /\ BagCardinality(inflight) = 1
            /\ \A r \in BagToSet(inflight) :
                    /\ r.skip = 0 /\ r.limit = 20 /\ r.tagIds = Undefined
                    /\ r.organizationId = organizationId
                    /\ IF tab = "logs" THEN r.severity = Undefined
                                       ELSE r.nameSearch = Undefined
    /\ [][(handleTabChange /\ tab' \in ListKinds) =>
            /\ list' = [items |-> <<>>, total |-> 0, skip |-> 0, tagFilter |-> "",
                        nameSearch |-> "", error |-> Null, loading |-> TRUE]
            /\ BagCardinality(inflight') = 1
            /\ \A r \in BagToSet(inflight') :
                    /\ r.skip = 0 /\ r.limit = 20 /\ r.tagIds = Undefined
                    /\ r.organizationId = organizationId
                    /\ IF tab' = "logs" THEN r.severity = Undefined
                                        ELSE r.nameSearch = Undefined]_vars

\* The logs list was mounted by a change of tab and waits for its first page.
C26_Witness ==
    /\ tab = "logs"
    /\ orphans = 1
    /\ list.loading /\ list.items = <<>> /\ list.skip = 0
    /\ inflight = SetToBag({lastReq})
    /\ lastReq.skip = 0 /\ lastReq.limit = 20

\* C27: the settling of a list call, resolved or rejected, leaves skip and the
\* filters as they are and issues no call, also where the total received is not
\* above skip.
C27_ResponseKeepsCursor ==
    [][(listFulfilled \/ listRejected) =>
            /\ list'.skip = list.skip
            /\ list'.tagFilter = list.tagFilter
            /\ list'.nameSearch = list.nameSearch
            /\ Issued = EmptyBag
            /\ listFulfilled => list'.error = list.error]_vars

\* The second page was asked for and the server answered that there is nothing:
\* skip is still that of the second page.
C27_Witness ==
    /\ list.skip = Limit
    /\ list.total = 0
    /\ list.items = <<>>
    /\ ~list.loading
    /\ inflight = EmptyBag

\* C28: no step of a mounted list component takes error from a text back to
\* null: not a call that resolves, not a search, not a page change, not an edit.
C28_ErrorNeverReset ==
    [][(list.error # Null /\ ~handleTabChange) => list'.error # Null]_vars

\* An error is shown above the second page of a list, with nothing outstanding.
C28_Witness ==
    /\ list.error # Null
    /\ list.skip = Limit
    /\ list.items # <<>> /\ list.items[1].first = Limit + 1
    /\ ~list.loading
    /\ inflight = EmptyBag

\* ---------------------------------------------------------------------------
\* Further claims about the upload form
\* ---------------------------------------------------------------------------

\* C29: no upload starts while one is outstanding: an upload starts only with
\* none outstanding, and while one is outstanding loading is true and the Upload
\* button is disabled, whichever tab of the form is shown and whatever its text.
C29_OneUploadAtATime ==
    /\ [](Len(uploading) <= 1)
    /\ [](uploading # <<>> => upload.loading /\ UploadDisabled)
    /\ [][handleUpload => uploading = <<>> /\ ~upload.loading]_vars

\* The traces sample is being uploaded while the form shows the logs tab with
\* the logs sample in its text area.
C29_Witness ==
    /\ uploading # <<>>
    /\ uploading[1].kind = "traces"
    /\ upload.activeTab = "logs"
    /\ Trim(upload.logsData) # <<>>
    /\ UploadDisabled

\* C30: the form never holds an error and a success message together, holds
\* neither while an upload is outstanding, and holds exactly one of them after
\* each submission has ended: the error after a text that does not parse or a
\* call that rejects, the success message after a call that resolves.
C30_ErrorOrSuccess ==
    /\ [](~(upload.error # Null /\ upload.success # Null))
    /\ [](uploading # <<>> => upload.error = Null /\ upload.success = Null)
    /\ [][(handleUpload /\ uploading' = <<>>) =>
                upload'.error # Null /\ upload'.success = Null]_vars
    /\ [][uploadRejected => upload'.error # Null /\ upload'.success = Null]_vars
    /\ [][uploadFulfilled => upload'.error = Null /\ upload'.success # Null]_vars

\* After an upload of traces has succeeded the text that was typed next did not
\* parse: the error is shown and the success message is gone.
C30_Witness ==
    /\ upload.error = "Unexpected end of JSON input"
    /\ upload.success = Null
    /\ upload.activeTab = "traces"
    /\ upload.tracesData = <<"{", "a">>
    /\ ~upload.loading

\* C31: an upload that resolves empties the text of the kind it was submitted
\* for, whatever that text has become and whichever kind is shown by then, and
\* leaves the texts of the other two kinds and the kind shown as they are.
C31_CompletionClearsSubmittedKind ==
    [][uploadFulfilled =>
            /\ Buffer(upload', uploading[1].kind) = <<>>
            /\ \A i \in DOMAIN UploadKinds :
                    UploadKinds[i] # uploading[1].kind =>
                        Buffer(upload', UploadKinds[i]) = Buffer(upload, UploadKinds[i])
            /\ upload'.activeTab = upload.activeTab]_vars

\* The traces sample was uploaded; the form shows the logs kind, whose sample is
\* still in its text area, and the metrics sample is kept too.
C31_Witness ==
    /\ upload.success = SuccessText("traces", 1)
    /\ upload.activeTab = "logs"
    /\ upload.tracesData = <<>>
    /\ upload.metricsData = getSampleData("metrics", 1)
    /\ upload.logsData = getSampleData("logs", 2)
    /\ uploading = <<>>

\* C32: loading is true exactly while an upload call is outstanding: a submit
\* whose text parses sets it, a submit whose text does not parse leaves it
\* false, and the call's resolution and its rejection set it back to false.
C32_LoadingWhileSubmitting ==
    /\ [](upload.loading <=> uploading # <<>>)
    /\ [][handleUpload =>
            /\ ~upload.loading
            /\ upload'.loading <=> JSONParse(getCurrentData).ok]_vars
    /\ [][(uploadFulfilled \/ uploadRejected) => upload.loading /\ ~upload'.loading]_vars

\* The upload of a trace was rejected: the error is shown, the text is kept and
\* loading is false again.
C32_Witness ==
    /\ tab = "upload"
    /\ ~upload.loading
    /\ uploading = <<>>
    /\ upload.error = "Upload failed"
    /\ upload.tracesData = ObjectText(1)

\* ---------------------------------------------------------------------------
\* Further claims about the overview's data
\* ---------------------------------------------------------------------------

\* C33: the overview holds no data of any kind or data of all three, and then
\* the three were stored by one fetch: a fetch that resolves stores its own
\* three responses together, and no other step stores any.
C33_DataOfOneFetch ==
    /\ [](\/ \A i \in 1..3 : Data(overview)[i] = <<>>
          \/ /\ \A i \in 1..3 : Data(overview)[i] # <<>>
             /\ \E org \in Organizations :
                    \A i \in 1..3 : Data(overview)[i][1].organizationId = org)
    /\ [][\A f \in BagToSet(fetches), k \in ListKinds :
            OverviewCallFulfilled(f, k) =>
                \/ Data(overview') = Data(overview)
                \/ /\ \A j \in ListKinds \ {k} : f.responses[j] # <<>>
                   /\ Data(overview') =
                        <<<<OverviewResponse(OverviewRequest("traces", f.organizationId))>>,
                          <<OverviewResponse(OverviewRequest("metrics", f.organizationId))>>,
                          <<OverviewResponse(OverviewRequest("logs", f.organizationId))>>>>]_vars
    /\ [][(overviewCallRejected \/ overviewOrganizationChanged) =>
                Data(overview') = Data(overview)]_vars

\* The overview of the second organization holds the three responses of that
\* organization's fetch, which replaced those of the first.
C33_Witness ==
    /\ tab = "overview"
    /\ organizationId = "org2"
    /\ fetches = EmptyBag
    /\ ~overview.loading
    /\ overview.error = Null
    /\ \A i \in 1..3 : Data(overview)[i] # <<>> /\ Data(overview)[i][1].organizationId = "org2"

\* C34: a change of organization leaves the calls of the fetches outstanding as
\* they are; each of these fetches runs to its end, and one that resolves stores
\* its responses whichever organization is shown by then, so that the data of
\* the fetch that resolves last stay.
C34_LastResolvedWins ==
    /\ [][overviewOrganizationChanged =>
            \A f \in BagToSet(fetches) : CopiesIn(f, fetches') >= CopiesIn(f, fetches)]_vars
    /\ [][\A f \in BagToSet(fetches), k \in ListKinds :
            (OverviewCallFulfilled(f, k) /\ \A j \in ListKinds \ {k} : f.responses[j] # <<>>) =>
                \A i \in 1..3 : Data(overview')[i][1].organizationId = f.organizationId]_vars

\* The overview shows the second organization and nothing is outstanding, and
\* the data it holds are those of the first organization.
C34_Witness ==
    /\ tab = "overview"
    /\ organizationId = "org2"
    /\ fetches = EmptyBag
    /\ overview.error = Null
    /\ \A i \in 1..3 : Data(overview)[i] # <<>> /\ Data(overview)[i][1].organizationId = "org1"

\* C35: no step of the overview takes error from a text back to null; with an
\* error and loading false the error alone is rendered, also when a later fetch
\* has stored its data, and with loading true the spinner alone.
C35_OverviewErrorStays ==
    /\ [][overview.error # Null => overview'.error # Null]_vars
    /\ [](overview.loading => Rendered(overview) = [view |-> "loading"])
    /\ []((~overview.loading /\ overview.error # Null) =>
            Rendered(overview) = [view |-> "error", message |-> overview.error])

\* The fetch of the first organization failed and that of the second stored its
\* data: the error is what is rendered.
C35_Witness ==
    /\ tab = "overview"
    /\ organizationId = "org2"
    /\ fetches = EmptyBag
    /\ overview.error = "Failed to load telemetry data"
    /\ \A i \in 1..3 : Data(overview)[i] # <<>> /\ Data(overview)[i][1].organizationId = "org2"
    /\ Rendered(overview) = [view |-> "error", message |-> "Failed to load telemetry data"]

\* ---------------------------------------------------------------------------
\* Further claims about the samples
\* ---------------------------------------------------------------------------

\* C36: Load Sample Data puts the sample of the kind shown into that kind's
\* text, leaves the other two texts and the outstanding upload as they are and
\* makes no call; each sample parses as one object, and its submit as loaded
\* sends a batch of that one object for the kind shown.
C36_SampleLoadsAndUploads ==
    /\ [](\A i \in DOMAIN UploadKinds, now \in Times :
            LET parsed == JSONParse(getSampleData(UploadKinds[i], now))
            IN  parsed.ok /\ parsed.value.type = "object")
    /\ [][loadSampleData =>
            /\ \E now \in Times :
                    Buffer(upload', upload.activeTab) = getSampleData(upload.activeTab, now)
            /\ \A i \in DOMAIN UploadKinds :
                    UploadKinds[i] # upload.activeTab =>
                        Buffer(upload', UploadKinds[i]) = Buffer(upload, UploadKinds[i])
            /\ upload' = WithBuffer(upload, upload.activeTab, Buffer(upload', upload.activeTab))
            /\ UNCHANGED <<uploading, listVars, overviewVars>>]_vars
    /\ [][(handleUpload /\ \E now \in Times :
                                getCurrentData = getSampleData(upload.activeTab, now)) =>
            /\ upload'.error = Null /\ upload'.loading
            /\ Len(uploading') = 1
            /\ uploading'[1].kind = upload.activeTab
            /\ uploading'[1].items = <<JSONParse(getCurrentData).value>>]_vars

\* The sample of the metrics kind is on its way as one item while the samples
\* of the other two kinds are in their text areas.
C36_Witness ==
    /\ uploading # <<>>
    /\ uploading[1].kind = "metrics"
    /\ Len(uploading[1].items) = 1
    /\ upload.activeTab = "metrics"
    /\ upload.metricsData = getSampleData("metrics", 1)
    /\ upload.tracesData = getSampleData("traces", 1)
    /\ upload.logsData = getSampleData("logs", 1)

====
